---- MODULE Spec2Model ----
(***************************************************************************)
(* Model of examples/violations.py: the module globals cache and counter,  *)
(* the class UserService (users list, config dict, add_user, generate_id,  *)
(* find_user, update_config) and the function process_data.                *)
(***************************************************************************)
EXTENDS Integers, Sequences, FiniteSets, TLC

\* ---------------------------------------------------------------- bounds
MaxUsers == 2       \* successful add_user calls (caps the unbounded counter)
MaxLen   == 3       \* length of the list handed to process_data
MaxInt   == 3       \* integer items are drawn from 0..MaxInt

\* the values the calls are made with
Stores == {1, 2}                \* the UserService instances of the process
Names  == {"ann", "bob"}
Ages   == {0 - 1, 0, 1}
Keys   == {"debug", "mode"}
Values == BOOLEAN

VARIABLES
    counter,    \* module global counter
    cache,      \* module global cache: a dict, here a function on its keys
    stores,     \* the UserService instances constructed so far
    users,      \* users[s]: self.users of instance s
    config,     \* config[s]: self.config of instance s
    last,       \* the most recent call: its arguments and its outcome
    assigned,   \* history: every id generate_id has returned
    written,    \* history: per key, the value of the latest update_config
    bpc,        \* process_data: "idle", "loop", "done" or "raised"
    escaped,    \* process_data: the exception that left the call, "" if none
    items,      \* process_data: the argument
    idx,        \* process_data: position of the for loop
    results,    \* process_data: the local list results
    logs        \* process_data: the items logging.error was called for

storeVars == <<counter, cache, stores, users, config, last, assigned, written>>
batchVars == <<bpc, escaped, items, idx, results, logs>>
vars == <<counter, cache, stores, users, config, last, assigned, written,
          bpc, escaped, items, idx, results, logs>>

\* ------------------------------------------------------------ dictionaries
EmptyDict == [k \in {} |-> FALSE]

\* d[key] = value on a Python dict
DictSetDefault(d, key, value) ==
    [k \in DOMAIN d \cup {key} |-> IF k \in DOMAIN d THEN d[k] ELSE value]

DictReplace(d, key, value) == [k \in {key} |-> value]

DictSet(d, key, value) ==
    [k \in DOMAIN d \cup {key} |-> IF k = key THEN value ELSE d[k]]

\* {"debug": True}
InitConfig == [k \in {"debug"} |-> TRUE]

\* ------------------------------------------------------------ UserService
\* the test of add_user that raises ValueError
AgeInvalidLoose(age) == age < 0 - 1

AgeInvalid(age) == age < 0

\* generate_id: counter += 1; return counter
GenerateIdStuck(c) == IF c = 0 THEN 1 ELSE c

GenerateIdSkip(c) == c + 2

GenerateId(c) == c + 1

\* the dict literal built by add_user
MakeUser(name, age, id) == [name |-> name, age |-> age, id |-> id]

\* self.users.append(user)
ListPrepend(l, x) == <<x>> \o l

ListAppend(l, x) == Append(l, x)

\* find_user: the for loop from position i on; <<>> stands for None
RECURSIVE ScanFrom(_, _, _)
ScanFrom(us, name, i) ==
    IF i > Len(us) THEN <<>>
    ELSE IF us[i].name = name THEN <<us[i]>>
    ELSE ScanFrom(us, name, i + 1)

RECURSIVE ScanBack(_, _, _)
ScanBack(us, name, i) ==
    IF i < 1 THEN <<>>
    ELSE IF us[i].name = name THEN <<us[i]>>
    ELSE ScanBack(us, name, i - 1)

FindUserLast(us, name) == ScanBack(us, name, Len(us))

FindUser(us, name) == ScanFrom(us, name, 1)

NoCall == [op |-> "none", s |-> 0, name |-> "", age |-> 0, key |-> "",
           value |-> FALSE, exc |-> "", ret |-> <<>>, rep |-> FALSE]

\* the record of a call being made; rep: the call before it was the same call
Call(op, s, name, age, key, value) ==
    [op |-> op, s |-> s, name |-> name, age |-> age, key |-> key,
     value |-> value, exc |-> "", ret |-> <<>>,
     rep |-> /\ last.op = op /\ last.s = s /\ last.name = name
             /\ last.age = age /\ last.key = key /\ last.value = value]

Init ==
    /\ counter = 0
    /\ cache = EmptyDict
    /\ stores = {}
    /\ users = [s \in Stores |-> <<>>]
    /\ config = [s \in Stores |-> EmptyDict]
    /\ last = NoCall
    /\ assigned = {}
    /\ written = EmptyDict
    /\ bpc = "idle"
    /\ escaped = ""
    /\ items = [iterable |-> TRUE, elems |-> <<>>]
    /\ idx = 1
    /\ results = <<>>
    /\ logs = <<>>

\* UserService(): instances are numbered in the order they are constructed
Construct(s) ==
    /\ s \notin stores
    /\ s = Cardinality(stores) + 1
    /\ stores' = stores \cup {s}
    /\ users' = [users EXCEPT ![s] = <<>>]
    /\ config' = [config EXCEPT ![s] = InitConfig]
    /\ last' = Call("init", s, "", 0, "", FALSE)
    /\ UNCHANGED <<counter, cache, assigned, written>>
    /\ UNCHANGED batchVars

AddUser(s, name, age) ==
    /\ s \in stores
    /\ IF AgeInvalid(age)
       THEN /\ last' = [Call("add_user", s, name, age, "", FALSE)
                           EXCEPT !.exc = "ValueError"]
            /\ UNCHANGED <<counter, users, assigned>>
       ELSE /\ counter < MaxUsers
            /\ counter' = GenerateId(counter)
            /\ LET user == MakeUser(name, age, counter')
               IN /\ users' = [users EXCEPT ![s] = ListAppend(@, user)]
                  /\ last' = [Call("add_user", s, name, age, "", FALSE)
                                 EXCEPT !.ret = <<user>>]
            /\ assigned' = assigned \cup {counter'}
    /\ UNCHANGED <<cache, stores, config, written>>
    /\ UNCHANGED batchVars

FindUserCall(s, name) ==
    /\ s \in stores
    /\ last' = [Call("find_user", s, name, 0, "", FALSE)
                   EXCEPT !.ret = FindUser(users[s], name)]
    /\ UNCHANGED <<counter, cache, stores, users, config, assigned, written>>
    /\ UNCHANGED batchVars

\* the value update_config stores in cache: its argument value
MirroredStale(old, key, value) == IF key \in DOMAIN old THEN old[key] ELSE value

Mirrored(old, key, value) == value

UpdateConfig(s, key, value) ==
    /\ s \in stores
    /\ config' = [config EXCEPT ![s] = DictSet(@, key, value)]
    /\ cache' = DictSet(cache, key, Mirrored(config[s], key, value))
    /\ written' = [k \in DOMAIN written \cup {key} |->
                      IF k = key THEN value ELSE written[k]]
    /\ last' = Call("update_config", s, "", 0, key, value)
    /\ UNCHANGED <<counter, stores, users, assigned>>
    /\ UNCHANGED batchVars

Next ==
    \/ \E s \in Stores : Construct(s)
    \/ \E s \in Stores, name \in Names, age \in Ages : AddUser(s, name, age)
    \/ \E s \in Stores, name \in Names : FindUserCall(s, name)
    \/ \E s \in Stores, key \in Keys, value \in Values : UpdateConfig(s, key, value)

Spec == Init /\ [][Next]_vars

\* ------------------------------------------------------------ process_data
IntItem(n) == [kind |-> "int", n |-> n, s |-> <<>>]
StrItem(s) == [kind |-> "str", n |-> 0, s |-> s]
NoneItem   == [kind |-> "none", n |-> 0, s |-> <<>>]

Items == {IntItem(n) : n \in 0..MaxInt} \cup {StrItem(<<"a">>), NoneItem}

\* the arguments process_data is called with: a list, or an object that is
\* not iterable (None, an int)
Inputs ==
    {[iterable |-> TRUE, elems |-> e] :
        e \in UNION {[1..k -> Items] : k \in 0..MaxLen}}
    \cup {[iterable |-> FALSE, elems |-> <<>>]}

\* the exception item * 2 raises, "" when it raises none
MulError(item) == IF item.kind = "none" THEN "TypeError" ELSE ""

\* item * 2: an int is doubled, a str is repeated
Mul2Plus(item) ==
    IF item.kind = "int" THEN IntItem(item.n + 2) ELSE StrItem(item.s \o item.s)

Mul2(item) ==
    IF item.kind = "int" THEN IntItem(item.n * 2) ELSE StrItem(item.s \o item.s)

\* except Exception: the classes the handler catches
CaughtValueErrorOnly(exc) == exc = "ValueError"

Caught(exc) == exc \in {"TypeError", "ValueError", "OverflowError", "MemoryError"}

\* the except branch leaves results as it is and continues
ExceptResultsPlaceholder(res, item) == Append(res, NoneItem)

ExceptResults(res, item) == res

\* logging.error(f"Failed to process {item}: {e}")
LogError(lg, item, exc) == Append(lg, [item |-> item, exc |-> exc])

\* the call, results = [] and the start of the for statement; a call keeps
\* nothing of an earlier call, so one call per behaviour is followed
ProcessDataCall(arg) ==
    /\ bpc = "idle"
    /\ items' = arg
    /\ results' = <<>>
    /\ logs' = <<>>
    /\ idx' = 1
    /\ IF arg.iterable
       THEN bpc' = "loop" /\ escaped' = ""
       ELSE bpc' = "raised" /\ escaped' = "TypeError"
    /\ UNCHANGED storeVars

\* one iteration of the for loop
LoopStep ==
    /\ bpc = "loop"
    /\ idx <= Len(items.elems)
    /\ LET item == items.elems[idx]
           exc  == MulError(item)
       IN IF exc = ""
          THEN /\ results' = Append(results, Mul2(item))
               /\ idx' = idx + 1
               /\ UNCHANGED <<bpc, escaped, logs>>
          ELSE IF Caught(exc)
          THEN /\ logs' = LogError(logs, item, exc)
               /\ results' = ExceptResults(results, item)
               /\ idx' = idx + 1
               /\ UNCHANGED <<bpc, escaped>>
          ELSE /\ bpc' = "raised"
               /\ escaped' = exc
               /\ UNCHANGED <<idx, results, logs>>
    /\ UNCHANGED items
    /\ UNCHANGED storeVars

\* the loop is exhausted: return results
Return ==
    /\ bpc = "loop"
    /\ idx > Len(items.elems)
    /\ bpc' = "done"
    /\ UNCHANGED <<escaped, items, idx, results, logs>>
    /\ UNCHANGED storeVars

NextBatch ==
    \/ \E arg \in Inputs : ProcessDataCall(arg)
    \/ LoopStep
    \/ Return

SpecBatch == Init /\ [][NextBatch]_vars

\* the interpreter runs the call to its end
FairSpecBatch == SpecBatch /\ WF_vars(LoopStep) /\ WF_vars(Return)

\* ------------------------------------------------------------ properties
\* the records of a list, and the ids of all records of all instances
Range(l) == {l[i] : i \in 1..Len(l)}
AllIds == UNION {{u.id : u \in Range(users[t])} : t \in Stores}
RECURSIVE TotalLen(_)
TotalLen(S) ==
    IF S = {} THEN 0
    ELSE LET t == CHOOSE x \in S : TRUE IN Len(users[t]) + TotalLen(S \ {t})

\* C1: a call add_user(name, age) with age >= 0 returns a record with that
\* name and age and an id greater than every id assigned before, by any
\* instance, and that record becomes the last element of the caller's users.
C1_AddUserReturnsFreshRecord ==
    [][(last'.op = "add_user" /\ last'.age >= 0) =>
          /\ last'.exc = ""
          /\ Len(last'.ret) = 1
          /\ last'.ret[1].name = last'.name
          /\ last'.ret[1].age = last'.age
          /\ \A i \in assigned \cup AllIds : last'.ret[1].id > i
          /\ users'[last'.s] = Append(users[last'.s], last'.ret[1])
          /\ \A t \in Stores \ {last'.s} : users'[t] = users[t]]_vars

\* a second record was added after another instance had assigned an id
C1_Witness ==
    /\ last.op = "add_user" /\ last.exc = "" /\ Len(last.ret) = 1
    /\ last.ret[1].id = 2
    /\ \E t \in Stores \ {last.s} : Len(users[t]) = 1

\* C2: a call add_user(name, age) with age < 0 raises ValueError and changes
\* neither any users list nor the counter.
C2_NegativeAgeRejected ==
    [][(last'.op = "add_user" /\ last'.age < 0) =>
          /\ last'.exc = "ValueError"
          /\ last'.ret = <<>>
          /\ users' = users
          /\ counter' = counter
          /\ assigned' = assigned]_vars

\* a negative age was rejected by an instance that already holds a record
C2_Witness ==
    /\ last.op = "add_user" /\ last.age < 0 /\ last.exc = "ValueError"
    /\ Len(users[last.s]) = 1 /\ counter = 1

\* C3: every record of every instance has age >= 0, no two records of the
\* process share an id, and within an instance ids increase along the list.
C3_RecordsInvariant ==
    /\ \A t \in Stores : \A i \in 1..Len(users[t]) : users[t][i].age >= 0
    /\ \A t \in Stores : \A i, j \in 1..Len(users[t]) :
          i < j => users[t][i].id < users[t][j].id
    /\ \A t1, t2 \in Stores : \A i \in 1..Len(users[t1]), j \in 1..Len(users[t2]) :
          users[t1][i].id = users[t2][j].id => (t1 = t2 /\ i = j)

\* each of the two instances holds one record, the second just added
C3_Witness ==
    /\ \A t \in Stores : Len(users[t]) = 1
    /\ last.op = "add_user" /\ last.exc = "" /\ last.age = 0

\* C4: find_user(name) returns the record at the lowest position of the
\* instance's list whose name is the argument, None when the instance has no
\* such record, and never a record of another instance.
C4_FindUserFirstMatch ==
    last.op = "find_user" =>
        LET us == users[last.s]
            hits == {i \in 1..Len(us) : us[i].name = last.name}
        IN /\ last.exc = ""
           /\ hits = {} => last.ret = <<>>
           /\ hits # {} =>
                 /\ Len(last.ret) = 1
                 /\ \E i \in hits : /\ \A j \in hits : i <= j
                                    /\ last.ret[1] = us[i]
                 /\ \A t \in Stores \ {last.s} : last.ret[1] \notin Range(users[t])

\* two records of the instance share the name looked up, the first is returned
C4_Witness ==
    /\ last.op = "find_user"
    /\ Len(users[last.s]) = 2
    /\ users[last.s][1].name = last.name
    /\ users[last.s][2].name = last.name
    /\ last.ret = <<users[last.s][1]>>

\* C5: right after update_config(k, v) on an instance, that instance's
\* config[k] and the process-wide cache[k] are both v, and the call raised
\* nothing.
C5_UpdateConfigWritesBoth ==
    last.op = "update_config" =>
        /\ last.exc = ""
        /\ last.key \in DOMAIN config[last.s]
        /\ config[last.s][last.key] = last.value
        /\ last.key \in DOMAIN cache
        /\ cache[last.key] = last.value

\* an instance overwrote a key that another instance had set to another value
C5_Witness ==
    /\ last.op = "update_config"
    /\ \E t \in Stores \ {last.s} :
          /\ last.key \in DOMAIN config[t]
          /\ config[t][last.key] # last.value
          /\ last.key # "debug"

\* C8: update_config(k, v) called again on the same instance with the same v,
\* directly after the first call, changes neither config nor cache.
C8_UpdateConfigIdempotent ==
    [][(last'.op = "update_config" /\ last'.rep) =>
          (config' = config /\ cache' = cache)]_vars

\* the same update was made twice in a row
C8_Witness == last.op = "update_config" /\ last.rep

\* C9: counter starts at 0, changes only by +1 in a successful add_user, and
\* always equals the number of records of all instances, whose ids are
\* exactly 1..counter.
C9_CounterCountsRecords ==
    /\ counter = 0
    /\ [](/\ counter = TotalLen(Stores)
          /\ AllIds = 1..counter
          /\ assigned = 1..counter)
    /\ [][\/ counter' = counter
          \/ /\ counter' = counter + 1
             /\ last'.op = "add_user" /\ last'.exc = ""]_vars

\* both instances hold records and a rejected add_user came last
C9_Witness ==
    /\ counter = 2
    /\ \A t \in Stores : Len(users[t]) = 1
    /\ last.op = "add_user" /\ last.exc = "ValueError"

\* C10: update_config(k, v) on instance s changes config[s][k] and cache[k]
\* and nothing else; cache[k] is the value of the latest update_config(k, .)
\* of any instance, and a key never updated is not in cache.
C10_UpdateConfigFrame ==
    /\ [](cache = written)
    /\ [][last'.op = "update_config" =>
            LET s == last'.s
                k == last'.key
            IN /\ DOMAIN config'[s] = DOMAIN config[s] \cup {k}
               /\ \A x \in DOMAIN config[s] \ {k} : config'[s][x] = config[s][x]
               /\ DOMAIN cache' = DOMAIN cache \cup {k}
               /\ \A x \in DOMAIN cache \ {k} : cache'[x] = cache[x]
               /\ \A t \in Stores \ {s} : config'[t] = config[t]
               /\ users' = users
               /\ counter' = counter
               /\ stores' = stores]_vars

\* an instance's own config[k] differs from cache[k] after another instance
\* updated k, and "debug" was never updated
C10_Witness ==
    /\ last.op = "update_config"
    /\ "debug" \notin DOMAIN cache
    /\ \E t \in stores \ {last.s} :
          /\ last.key \in DOMAIN config[t]
          /\ config[t][last.key] # cache[last.key]
    /\ counter > 0

\* item * 2 as Python defines it for the items of the model
Twice(item) ==
    IF item.kind = "int" THEN IntItem(item.n + item.n)
    ELSE StrItem(item.s \o item.s)
Multiplies(item) == item.kind \in {"int", "str"}
Fails(item) == ~Multiplies(item)

\* C6: process_data returns the doubled items whose multiplication succeeds,
\* in their order, omits every failing item and logs one entry for each, so
\* len(result) + log entries = len(items); process_data([1,2,3]) = [2,4,6].
C6_ResultIsDoubledSuccesses ==
    bpc = "done" =>
        LET good == SelectSeq(items.elems, Multiplies)
            bad  == SelectSeq(items.elems, Fails)
        IN /\ results = [i \in 1..Len(good) |-> Twice(good[i])]
           /\ Len(logs) = Len(bad)
           /\ \A i \in 1..Len(bad) : logs[i].item = bad[i]
           /\ Len(results) + Len(logs) = Len(items.elems)
           /\ items.elems = <<IntItem(1), IntItem(2), IntItem(3)>> =>
                 results = <<IntItem(2), IntItem(4), IntItem(6)>>

\* a list with a failing item between two good ones was processed
C6_Witness ==
    /\ bpc = "done"
    /\ items.elems = <<IntItem(1), NoneItem, IntItem(3)>>
    /\ results = <<IntItem(2), IntItem(6)>>
    /\ Len(logs) = 1

\* C7 as stated: no exception leaves process_data, whatever the argument.
C7_NoExceptionEscapes == bpc # "raised" /\ escaped = ""

\* C7, amended: called with a list, process_data lets no exception out, a
\* failing item does not end the loop, and the call returns; called with an
\* object that is not iterable, TypeError leaves the call.
C7_NoEscapeOnIterable ==
    /\ [](items.iterable => (bpc # "raised" /\ escaped = ""))
    /\ [](~items.iterable => (bpc = "raised" /\ escaped = "TypeError"))
    /\ [][(bpc = "loop" /\ idx <= Len(items.elems)) =>
             (bpc' = "loop" /\ idx' = idx + 1)]_vars
    /\ (bpc = "loop") ~> (bpc = "done")

\* a list whose first item fails was processed to its end
C7_Witness ==
    /\ bpc = "done"
    /\ Len(items.elems) = MaxLen
    /\ items.elems[1] = NoneItem
    /\ Len(results) = MaxLen - 1

====
